---- MODULE Spec2Model ----
(***************************************************************************)
(* SparseChem, sparsechem/models.py: ModelConfig, SparseLinear,            *)
(* SparseInputNet, IntermediateNet, LastNet and SparseFFN.                 *)
(*                                                                         *)
(* A session of the library is modelled: one ModelConfig is constructed,   *)
(* one module is constructed from it, and the module's forward is called   *)
(* on batches.  A constructor or a forward call that raises leaves the     *)
(* exception's name in err and returns no object.                          *)
(*                                                                         *)
(* Tensors hold integers instead of floats; tanh is abstracted by the      *)
(* saturating map to [-1, 1]; the random initial weights are drawn from a  *)
(* small family indexed by a seed; a dropout mask is drawn from a small    *)
(* family of 0/1 masks.  Python's None is the record None for objects and  *)
(* the empty tuple for optional integers.                                  *)
(***************************************************************************)
EXTENDS Integers, Sequences, FiniteSets, TLC

VARIABLES
  op,     \* the operation the session ran last
  args,   \* the arguments given to ModelConfig, None before the call
  conf,   \* the ModelConfig returned, None if none was
  model,  \* the module constructed from conf, None if none was
  xin,    \* the input the session calls forward on, None before it is loaded
  call,   \* the latest forward call: its mode, its result, what it built
  err     \* the exception that ended the session, "none" if none did

vars == <<op, args, conf, model, xin, call, err>>

(* ------------------------------ bounds --------------------------------- *)
MaxInputSize == 2
MaxHiddenLen == 2
MaxNnz == 1
MaxSplitSize == 3
MaxSplitNnz == 2

Widths == {2}
OutputSizes == {1, 3}
NumRows == {1, 2}
Values == {1, 2}
Dropouts == {0, 50}
Seeds == {0, 1}
Names == {"relu", "tanh", "sigmoid"}

(* ------------------------------ None ----------------------------------- *)
None == [cls |-> "NoneType"]
NoInt == << >>
Some(v) == <<v>>

(* models.py:5-8 *)
non_linearities == {"relu", "tanh"}

(* ---------------------------- ModelConfig ------------------------------ *)
(* A mapping is an array; only its shape[0] is read. *)
Mapping(n) == [cls |-> "ndarray", shape |-> <<n>>]

Raise(e) == [exc |-> e, self |-> None]
Return(obj) == [exc |-> "none", self |-> obj]

\* The rest of a computation, F, runs on the value of r unless r raised.
Bind(r, F(_)) == IF r.exc # "none" THEN r ELSE F(r.self)

\* ModelConfig.__init__ without the assertion of line 59.
ModelConfig__init__no_mapping_check(a) ==
  IF a.non_linearity \notin non_linearities THEN Raise("AssertionError")
  ELSE IF a.input_size_freq # NoInt /\ ~(a.input_size_freq[1] <= a.input_size)
         THEN Raise("AssertionError")
  ELSE Return([cls                |-> "ModelConfig",
               mapping            |-> a.mapping,
               input_size         |-> a.input_size,
               hidden_sizes       |-> a.hidden_sizes,
               output_size        |-> a.output_size,
               hidden_dropout     |-> a.hidden_dropout,
               last_dropout       |-> a.last_dropout,
               last_non_linearity |-> a.last_non_linearity,
               weight_decay       |-> a.weight_decay,
               tail_hidden_size   |-> a.tail_hidden_size,
               non_linearity      |-> a.non_linearity,
               input_size_freq    |-> IF a.input_size_freq = NoInt
                                        THEN a.input_size
                                        ELSE a.input_size_freq[1]])

(* models.py:44-75.  The assertion of line 75 follows the assignments, but *)
(* an exception in __init__ returns no object.                             *)
ModelConfig__init__(a) ==
  IF a.non_linearity \notin non_linearities THEN Raise("AssertionError")
  ELSE IF a.mapping # None /\ a.input_size # a.mapping.shape[1]
         THEN Raise("AssertionError")
  ELSE IF a.input_size_freq # NoInt /\ ~(a.input_size_freq[1] <= a.input_size)
         THEN Raise("AssertionError")
  ELSE Return([cls                |-> "ModelConfig",
               mapping            |-> a.mapping,
               input_size         |-> a.input_size,
               hidden_sizes       |-> a.hidden_sizes,
               output_size        |-> a.output_size,
               hidden_dropout     |-> a.hidden_dropout,
               last_dropout       |-> a.last_dropout,
               last_non_linearity |-> a.last_non_linearity,
               weight_decay       |-> a.weight_decay,
               tail_hidden_size   |-> a.tail_hidden_size,
               non_linearity      |-> a.non_linearity,
               input_size_freq    |-> IF a.input_size_freq = NoInt
                                        THEN a.input_size
                                        ELSE a.input_size_freq[1]])

RECURSIVE SeqsUpTo(_, _)
SeqsUpTo(S, n) ==
  IF n = 0 THEN {<< >>}
  ELSE LET shorter == SeqsUpTo(S, n - 1)
       IN  shorter \cup {Append(s, x) : s \in {t \in shorter : Len(t) = n - 1}, x \in S}

HiddenSizes == SeqsUpTo(Widths, MaxHiddenLen) \ {<< >>}

OptInts(S) == {NoInt} \cup {Some(v) : v \in S}

(* Every combination of constructor arguments, the invalid ones included. *)
ConfigArgs ==
  [input_size         : 1..MaxInputSize,
   hidden_sizes       : HiddenSizes,
   output_size        : OutputSizes,
   mapping            : {None} \cup {Mapping(n) : n \in 1..(MaxInputSize + 1)},
   hidden_dropout     : Dropouts,
   last_dropout       : Dropouts,
   weight_decay       : {0},
   input_size_freq    : OptInts(1..(MaxInputSize + 1)),
   tail_hidden_size   : OptInts(Widths),
   non_linearity      : Names,
   last_non_linearity : Names]

\* conf = ModelConfig(...): the constructor call of the session, with its
\* arguments drawn from A.
ConstructModelConfig(A) ==
  /\ args = None /\ conf = None /\ err = "none"
  /\ \E a \in A :
       LET r == ModelConfig__init__(a)
       IN  /\ args' = a
           /\ conf' = r.self
           /\ err' = r.exc
  /\ op' = "ModelConfig"
  /\ UNCHANGED <<model, xin, call>>

\* The arguments of the sessions that go on to build a module: the fields no
\* module reads (mapping, weight_decay) take their defaults.
NetArgs ==
  [input_size         : 1..MaxInputSize,
   hidden_sizes       : HiddenSizes,
   output_size        : OutputSizes,
   mapping            : {None},
   hidden_dropout     : {0},
   last_dropout       : Dropouts,
   weight_decay       : {0},
   input_size_freq    : OptInts(1..MaxInputSize),
   tail_hidden_size   : {Some(2)},
   non_linearity      : {"relu", "tanh"},
   last_non_linearity : Names]

(* ------------------------------ tensors -------------------------------- *)
\* A dense tensor: shape <<rows, cols>> and the rows as tuples.
Dense(r, c, f(_, _)) ==
  [shape |-> <<r, c>>, data |-> [i \in 1..r |-> [j \in 1..c |-> f(i, j)]]]

RECURSIVE SumTo(_, _)
SumTo(f, n) == IF n = 0 THEN 0 ELSE SumTo(f, n - 1) + f[n]

\* The subsequence of s at the positions where keep is TRUE: s[mask].
RECURSIVE Masked(_, _)
Masked(s, keep) ==
  IF s = << >> THEN << >>
  ELSE IF keep[1] THEN <<s[1]>> \o Masked(Tail(s), Tail(keep))
  ELSE Masked(Tail(s), Tail(keep))

\* torch.sparse_coo_tensor(indices, values, size): indices[1] are the row
\* indices and indices[2] the column indices (x_ind[0] and x_ind[1] of the
\* source), counted from 0.  An index outside size is refused.
sparse_coo_tensor(indices, values, size) ==
  IF \E k \in 1..Len(values) :
       \/ indices[1][k] < 0 \/ indices[1][k] >= size[1]
       \/ indices[2][k] < 0 \/ indices[2][k] >= size[2]
    THEN Raise("RuntimeError")
    ELSE Return([cls |-> "sparse_coo", shape |-> size,
                 indices |-> indices, values |-> values])

\* torch.mm(input, weight) of a sparse input and a dense weight.
mm(input, weight) ==
  IF input.shape[2] # weight.shape[1] THEN Raise("RuntimeError")
  ELSE Return(Dense(input.shape[1], weight.shape[2],
         LAMBDA i, j :
           SumTo([k \in 1..Len(input.values) |->
                    IF input.indices[1][k] = i - 1
                      THEN input.values[k] * weight.data[input.indices[2][k] + 1][j]
                      ELSE 0],
                 Len(input.values))))

\* a + b of two dense tensors of one shape.
Add(a, b) ==
  IF a.shape # b.shape THEN Raise("RuntimeError")
  ELSE Return(Dense(a.shape[1], a.shape[2], LAMBDA i, j : a.data[i][j] + b.data[i][j]))

\* The initial value of a parameter of shape <<r, c>> under a seed.
InitParam(seed, r, c) == Dense(r, c, LAMBDA i, j : ((seed + i + 2 * j) % 3) - 1)

(* ---------------------------- SparseLinear ----------------------------- *)
\* models.py:17-30: weight [in_features, out_features], bias zero or None.
SparseLinear__init__(in_features, out_features, bias, seed) ==
  [cls    |-> "SparseLinear",
   weight |-> InitParam(seed, in_features, out_features),
   bias   |-> IF bias THEN Dense(1, out_features, LAMBDA i, j : 0) ELSE None]

\* out + self.bias, the bias added to every row.
AddBias(out, bias) ==
  IF bias # None
    THEN Dense(out.shape[1], out.shape[2], LAMBDA i, j : out.data[i][j] + bias.data[1][j])
    ELSE out

\* models.py:32-36
SparseLinear_forward(self, input) ==
  Bind(mm(input, self.weight), LAMBDA out : Return(AddBias(out, self.bias)))

(* ------------------------- torch.nn building blocks -------------------- *)
\* nn.Linear(in_features, out_features, bias): weight [out, in].
Linear__init__(in_features, out_features, bias, seed) ==
  [cls    |-> "Linear",
   weight |-> InitParam(seed + 1, out_features, in_features),
   bias   |-> IF bias THEN InitParam(seed + 2, 1, out_features) ELSE None]

\* nn.Linear.forward: H @ weight.T + bias.
Linear_forward(self, H) ==
  IF H.shape[2] # self.weight.shape[2] THEN Raise("RuntimeError")
  ELSE Return(Dense(H.shape[1], self.weight.shape[1],
         LAMBDA i, j :
           SumTo([k \in 1..H.shape[2] |-> H.data[i][k] * self.weight.data[j][k]],
                 H.shape[2])
           + (IF self.bias # None THEN self.bias.data[1][j] ELSE 0)))

ReLU(x) == IF x < 0 THEN 0 ELSE x
Tanh(x) == IF x < -1 THEN -1 ELSE IF x > 1 THEN 1 ELSE x

Activation(name) == [cls |-> name]

Activation_forward(self, H) ==
  Dense(H.shape[1], H.shape[2],
        LAMBDA i, j : IF self.cls = "relu" THEN ReLU(H.data[i][j]) ELSE Tanh(H.data[i][j]))

Dropout__init__(p) == [cls |-> "Dropout", p |-> p]

\* The masks a dropout layer may draw: keep every element, drop every
\* element, drop every second element.
MaskKinds == {"keep", "drop", "alternate"}

\* A dropout layer of probability 0 drops nothing.
DropMasks(p) == IF p = 0 THEN {"keep"} ELSE MaskKinds

MaskAt(mask, i, j) ==
  IF mask = "keep" THEN 1 ELSE IF mask = "drop" THEN 0 ELSE (i + j) % 2

\* A dropout layer that drops in evaluation mode too.
Dropout_forward_always(self, training, mask, H) ==
  IF self.p > 0
    THEN Dense(H.shape[1], H.shape[2],
               LAMBDA i, j : (H.data[i][j] * MaskAt(mask, i, j) * 100) \div (100 - self.p))
    ELSE H

\* nn.Dropout.forward: the identity in evaluation mode; in training mode the
\* elements the mask drops become zero and the rest are scaled by 1/(1-p).
Dropout_forward(self, training, mask, H) ==
  IF training /\ self.p > 0
    THEN Dense(H.shape[1], H.shape[2],
               LAMBDA i, j : (H.data[i][j] * MaskAt(mask, i, j) * 100) \div (100 - self.p))
    ELSE H

\* getattr on a module: an attribute the object does not hold raises
\* AttributeError.
HasAttr(obj, name) == name \in DOMAIN obj

(* --------------------------- SparseInputNet ---------------------------- *)
\* models.py:83-92, on the object self that lines 80-81 have filled.  Line 87
\* reads tail_hidden_size and line 91 hidden_sizes from self, which holds
\* input_splits and net_freq only.
build_net_rare(self, seed) ==
  IF self.input_splits[2] = 0
    THEN Return([cls          |-> "SparseInputNet",
                 training     |-> TRUE,
                 input_splits |-> self.input_splits,
                 net_freq     |-> self.net_freq,
                 net_rare     |-> None])
  ELSE IF ~HasAttr(self, "tail_hidden_size") \/ ~HasAttr(self, "hidden_sizes")
    THEN Raise("AttributeError")
  ELSE Return([cls          |-> "SparseInputNet",
               training     |-> TRUE,
               input_splits |-> self.input_splits,
               net_freq     |-> self.net_freq,
               net_rare     |->
                 <<SparseLinear__init__(self.input_splits[2], self.tail_hidden_size,
                                        TRUE, seed + 3),
                   Linear__init__(self.tail_hidden_size, self.hidden_sizes[1],
                                  FALSE, seed + 4)>>])

\* models.py:78-92
SparseInputNet__init__(c, seed) ==
  build_net_rare([cls          |-> "SparseInputNet",
                  training     |-> TRUE,
                  input_splits |-> <<c.input_size_freq, c.input_size - c.input_size_freq>>,
                  net_freq     |-> SparseLinear__init__(c.input_size_freq,
                                                        c.hidden_sizes[1], TRUE, seed)],
                 seed)

\* models.py:100-108: the two coordinate sets of the rare path.
SplitFreqRare(input_splits, x_ind, x_data, num_rows) ==
  LET mask_freq == [k \in 1..Len(x_data) |-> x_ind[2][k] < input_splits[1]]
      mask_rare == [k \in 1..Len(x_data) |-> ~mask_freq[k]]
  IN  [Xfreq |-> sparse_coo_tensor(
                   <<Masked(x_ind[1], mask_freq), Masked(x_ind[2], mask_freq)>>,
                   Masked(x_data, mask_freq),
                   <<num_rows, input_splits[1]>>),
       Xrare |-> sparse_coo_tensor(
                   <<Masked(x_ind[1], mask_rare), Masked(x_ind[2], mask_rare)>>,
                   Masked(x_data, mask_rare),
                   <<num_rows, input_splits[2]>>)]

\* net_rare(Xrare): nn.Sequential(SparseLinear, Linear).
net_rare_forward(net_rare, Xrare) ==
  IF net_rare = None THEN Raise("TypeError")
  ELSE Bind(SparseLinear_forward(net_rare[1], Xrare),
            LAMBDA t : Linear_forward(net_rare[2], t))

\* What a call of SparseInputNet.forward built, kept next to its result r:
\* the path taken and the sparse matrices.
Traced(r, path, X, Xfreq, Xrare) ==
  [exc |-> r.exc, self |-> r.self, path |-> path,
   X |-> X, Xfreq |-> Xfreq, Xrare |-> Xrare]

\* models.py:95-98
forward_no_rare(self, X) ==
  Traced(Bind(X, LAMBDA t : SparseLinear_forward(self.net_freq, t)),
         "no_rare", X.self, None, None)

\* models.py:109, after the split S of lines 100-108.
forward_rare(self, S) ==
  Traced(Bind(S.Xfreq, LAMBDA xf :
           Bind(S.Xrare, LAMBDA xr :
             Bind(SparseLinear_forward(self.net_freq, xf), LAMBDA f :
               Bind(net_rare_forward(self.net_rare, xr), LAMBDA g : Add(f, g))))),
         "rare", None, S.Xfreq.self, S.Xrare.self)

\* SparseInputNet.forward with the no-rare matrix sized by the rare width,
\* input_splits[1] of the source, instead of the frequent one.
SparseInputNet_forward_rare_width(self, x_ind, x_data, num_rows) ==
  IF self.input_splits[2] = 0
    THEN forward_no_rare(self, sparse_coo_tensor(x_ind, x_data,
                                                 <<num_rows, self.input_splits[2]>>))
    ELSE forward_rare(self, SplitFreqRare(self.input_splits, x_ind, x_data, num_rows))

\* models.py:94-109
SparseInputNet_forward(self, x_ind, x_data, num_rows) ==
  IF self.input_splits[2] = 0
    THEN forward_no_rare(self, sparse_coo_tensor(x_ind, x_data,
                                                 <<num_rows, self.input_splits[1]>>))
    ELSE forward_rare(self, SplitFreqRare(self.input_splits, x_ind, x_data, num_rows))

(* --------------------------- IntermediateNet --------------------------- *)
\* models.py:112-120.  The loop body reads self.intermediate_net, which the
\* object does not hold: its first iteration raises.
IntermediateNet__init__(c, seed) ==
  LET self == [cls |-> "IntermediateNet", training |-> TRUE, net |-> << >>]
  IN  IF Len(c.hidden_sizes) - 1 <= 0 THEN Return(self)
      ELSE IF ~HasAttr(self, "intermediate_net") THEN Raise("AttributeError")
      ELSE Raise("TypeError")

\* A block applied to H: activation, dropout, linear.
Block_forward(block, training, mask, H) ==
  Linear_forward(block[3],
                 Dropout_forward(block[2], training, mask,
                                 Activation_forward(block[1], H)))

\* nn.Sequential.forward: the modules in order; none leaves H as it is.
RECURSIVE Sequential_forward(_, _, _, _)
Sequential_forward(net, training, mask, H) ==
  IF net = << >> THEN Return(H)
  ELSE Bind(Block_forward(net[1], training, mask, H),
            LAMBDA t : Sequential_forward(Tail(net), training, mask, t))

\* IntermediateNet.forward with an activation applied ahead of the blocks.
IntermediateNet_forward_relu(self, training, mask, H) ==
  Sequential_forward(self.net, training, mask, Activation_forward(Activation("relu"), H))

\* models.py:121-122
IntermediateNet_forward(self, training, mask, H) ==
  Sequential_forward(self.net, training, mask, H)

(* ------------------------------- LastNet ------------------------------- *)
\* models.py:125-132
LastNet__init__(c, seed) ==
  IF c.last_non_linearity \notin non_linearities THEN Raise("KeyError")
  ELSE Return([cls      |-> "LastNet",
               training |-> TRUE,
               net      |-> <<<<Activation(c.last_non_linearity),
                                Dropout__init__(c.last_dropout),
                                Linear__init__(c.hidden_sizes[Len(c.hidden_sizes)],
                                               c.output_size, TRUE, seed + 5)>>>>])

\* models.py:133-134
LastNet_forward(self, training, mask, H) ==
  Sequential_forward(self.net, training, mask, H)

(* ------------------------------ SparseFFN ------------------------------ *)
\* models.py:137-144: the three stages are built in this order and the first
\* exception ends the construction.
SparseFFN__init__(c, seed) ==
  Bind(SparseInputNet__init__(c, seed), LAMBDA input_net :
    Bind(IntermediateNet__init__(c, seed), LAMBDA inter :
      Bind(LastNet__init__(c, seed), LAMBDA last :
        Return([cls       |-> "SparseFFN",
                training  |-> TRUE,
                input_net |-> input_net,
                net       |-> <<inter, last>>]))))

\* What a call of SparseFFN.forward computed, kept next to its result o: h is
\* what input_net returned and h2 what IntermediateNet returned.
forward_traced(h, h2, o) ==
  [exc |-> o.exc, self |-> o.self, path |-> h.path, X |-> h.X,
   H |-> h.self, H2 |-> h2.self]

\* self.net(H): IntermediateNet, then LastNet.
forward_last(self, training, mask, h, h2) ==
  forward_traced(h, h2,
                 Bind(h2, LAMBDA t : LastNet_forward(self.net[2], training, mask, t)))

forward_inter(self, training, mask, h) ==
  forward_last(self, training, mask, h,
               Bind(h, LAMBDA t : IntermediateNet_forward(self.net[1], training, mask, t)))

\* models.py:146-148.  The result carries the intermediate values H (after
\* input_net) and H2 (after IntermediateNet) next to the value returned.
SparseFFN_forward(self, training, mask, x_ind, x_data, num_rows) ==
  forward_inter(self, training, mask,
                SparseInputNet_forward(self.input_net, x_ind, x_data, num_rows))

(* ------------------------------ session ------------------------------- *)
NetModelConfig == ConstructModelConfig(NetArgs)

AnyModelConfig == ConstructModelConfig(ConfigArgs)

\* model = Class(conf)
Construct(name, r) ==
  /\ model' = r.self
  /\ err' = r.exc
  /\ op' = name
  /\ UNCHANGED <<args, conf, xin, call>>

CanConstruct == conf # None /\ model = None /\ err = "none"

NewSparseInputNet ==
  /\ CanConstruct
  /\ \E seed \in Seeds : Construct("SparseInputNet", SparseInputNet__init__(conf, seed))

NewIntermediateNet ==
  /\ CanConstruct
  /\ \E seed \in Seeds : Construct("IntermediateNet", IntermediateNet__init__(conf, seed))

NewLastNet ==
  /\ CanConstruct
  /\ \E seed \in Seeds : Construct("LastNet", LastNet__init__(conf, seed))

NewSparseFFN ==
  /\ CanConstruct
  /\ \E seed \in Seeds : Construct("SparseFFN", SparseFFN__init__(conf, seed))

\* model.train() and model.eval()
SetTraining(mode) ==
  /\ model # None /\ err = "none"
  /\ model.training # mode
  /\ model' = [model EXCEPT !.training = mode]
  /\ op' = IF mode THEN "train" ELSE "eval"
  /\ UNCHANGED <<args, conf, xin, call, err>>

Train == SetTraining(TRUE)

Eval == SetTraining(FALSE)

\* The well-formed batches of num_rows rows over input_size columns: up to
\* MaxNnz entries (row, column, value), in any order, repeats allowed.
Entries(num_rows, input_size) ==
  (0..(num_rows - 1)) \X (0..(input_size - 1)) \X Values

Batch(entries, num_rows) ==
  [x_ind    |-> <<[k \in 1..Len(entries) |-> entries[k][1]],
                  [k \in 1..Len(entries) |-> entries[k][2]]>>,
   x_data   |-> [k \in 1..Len(entries) |-> entries[k][3]],
   num_rows |-> num_rows]

BatchesUpTo(input_size, nnz) ==
  UNION {{Batch(e, n) : e \in SeqsUpTo(Entries(n, input_size), nnz)} : n \in NumRows}

\* The batches of the sessions, by input_size.
Batches == [input_size \in 1..MaxInputSize |-> BatchesUpTo(input_size, MaxNnz)]

\* The dense inputs of num_rows rows and width columns given to a stage
\* called on its own.
DenseInputs(width) ==
  {Dense(n, width, LAMBDA i, j : ((s + i + j) % 5) - 2) : n \in NumRows, s \in {0, 1, 3}}

\* The inputs the session gives to forward, by the class of the module: a
\* SparseInputNet and a LastNet are called inside a SparseFFN only.
Inputs ==
  IF model.cls = "SparseFFN" THEN Batches[conf.input_size]
  ELSE IF model.cls = "IntermediateNet" THEN DenseInputs(conf.hidden_sizes[1])
  ELSE {}

\* The caller prepares the input of the session.
LoadInput ==
  /\ model # None /\ xin = None /\ err = "none"
  /\ xin' \in Inputs
  /\ op' = "load"
  /\ UNCHANGED <<args, conf, model, call, err>>

\* A forward call on xin in the module's current mode.  repeated tells that the
\* call before it, on the same xin, and this one both ran in evaluation mode.
Called(r) ==
  /\ call' = [training |-> model.training,
              repeated |-> call # None /\ ~call.training /\ ~model.training,
              result   |-> r]
  /\ err' = call'.result.exc
  /\ op' = "forward"
  /\ UNCHANGED <<args, conf, model, xin>>

CanCall(cls) == model # None /\ xin # None /\ err = "none" /\ model.cls = cls

ForwardIntermediateNet ==
  /\ CanCall("IntermediateNet")
  /\ \E mask \in DropMasks(conf.hidden_dropout) :
       Called(IntermediateNet_forward(model, model.training, mask, xin))

ForwardSparseFFN ==
  /\ CanCall("SparseFFN")
  /\ \E mask \in DropMasks(conf.hidden_dropout) \cup DropMasks(conf.last_dropout) :
       Called(SparseFFN_forward(model, model.training, mask,
                                xin.x_ind, xin.x_data, xin.num_rows))

Init ==
  /\ op = "start"
  /\ args = None
  /\ conf = None
  /\ model = None
  /\ xin = None
  /\ call = None
  /\ err = "none"

Next ==
  \/ NetModelConfig
  \/ NewSparseInputNet
  \/ NewIntermediateNet
  \/ NewLastNet
  \/ NewSparseFFN
  \/ LoadInput
  \/ Train
  \/ Eval
  \/ ForwardIntermediateNet
  \/ ForwardSparseFFN

Spec == Init /\ [][Next]_vars

NextConfig == AnyModelConfig

SpecConfig == Init /\ [][NextConfig]_vars

(* ------------------- the split of lines 100-108 alone ------------------ *)
\* SparseInputNet.forward's split applied to every input_splits with a rare
\* block and every well-formed batch over input_splits[1] + input_splits[2]
\* columns.
SplitInputs ==
  UNION {[input_splits : {<<f, n - f>>}, batch : BatchesUpTo(n, MaxSplitNnz)] :
           n \in 2..MaxSplitSize, f \in 1..(MaxSplitSize - 1)}

InitSplit ==
  /\ op = "start"
  /\ \E i \in {j \in SplitInputs : j.input_splits[2] > 0} :
       /\ args = [input_splits |-> i.input_splits]
       /\ xin = i.batch
  /\ conf = None
  /\ model = None
  /\ call = None
  /\ err = "none"

ApplySplit ==
  /\ op = "start"
  /\ call' = SplitFreqRare(args.input_splits, xin.x_ind, xin.x_data, xin.num_rows)
  /\ op' = "split"
  /\ UNCHANGED <<args, conf, model, xin, err>>

NextSplit == ApplySplit

SpecSplit == InitSplit /\ [][NextSplit]_vars

(* ============================== claims ================================= *)
IsNoRare(c) == c.input_size_freq = c.input_size

\* A configuration the specification calls valid: both activation names are
\* enumerated ones, and a rare split comes with a tail_hidden_size.
Valid(c) ==
  /\ c.non_linearity \in non_linearities
  /\ c.last_non_linearity \in non_linearities
  /\ Len(c.hidden_sizes) >= 1
  /\ (~IsNoRare(c) => c.tail_hidden_size # NoInt)

\* C1: no ModelConfig is returned whose non_linearity or last_non_linearity
\* is outside {relu, tanh}: construction fails for either.
C1_ActivationNamesChecked ==
  conf # None =>
    /\ conf.non_linearity \in non_linearities
    /\ conf.last_non_linearity \in non_linearities

\* C2: construction fails when a mapping is given whose length differs from
\* input_size, and when input_size_freq is given and exceeds input_size; a
\* ModelConfig returned has no mapping or one of length input_size, has
\* input_size_freq <= input_size, and has input_size_freq = input_size when
\* the argument was omitted.
C2_MappingAndFreqChecked ==
  args # None =>
    /\ (args.mapping # None /\ args.mapping.shape[1] # args.input_size)
         => (conf = None /\ err = "AssertionError")
    /\ (args.input_size_freq # NoInt /\ args.input_size_freq[1] > args.input_size)
         => (conf = None /\ err = "AssertionError")
    /\ conf # None =>
         /\ (conf.mapping = None \/ conf.mapping.shape[1] = conf.input_size)
         /\ conf.input_size_freq <= conf.input_size
         /\ (args.input_size_freq = NoInt => conf.input_size_freq = conf.input_size)

\* C2 witness: a mapping one short of input_size, everything else valid, was
\* refused.
C2_Witness ==
  /\ args # None
  /\ args.mapping # None /\ args.mapping.shape[1] = args.input_size - 1
  /\ args.non_linearity = "relu"
  /\ args.input_size_freq = NoInt
  /\ conf = None /\ err = "AssertionError"

\* C3: with a rare block, the split puts every entry (row, col, val) of the
\* batch in exactly one of Xfreq and Xrare: the entries of the frequent
\* columns in Xfreq with their column, the others in Xrare with the column
\* less input_splits[0], so within [0, input_splits[1]).
Occurrences(indices, values, e) ==
  Cardinality({k \in 1..Len(values) : <<indices[1][k], indices[2][k], values[k]>> = e})

C3_SplitExhaustiveDisjointShifted ==
  op = "split" =>
    LET s == args.input_splits
        U == (0..(xin.num_rows - 1)) \X (0..(s[1] + s[2] - 1)) \X Values
    IN  /\ call.Xfreq.exc = "none"
        /\ call.Xrare.exc = "none"
        /\ Len(call.Xfreq.self.values) + Len(call.Xrare.self.values) = Len(xin.x_data)
        /\ \A k \in 1..Len(call.Xrare.self.values) :
             call.Xrare.self.indices[2][k] \in 0..(s[2] - 1)
        /\ \A e \in U :
             /\ Occurrences(call.Xfreq.self.indices, call.Xfreq.self.values, e)
                  = IF e[2] < s[1] THEN Occurrences(xin.x_ind, xin.x_data, e) ELSE 0
             /\ Occurrences(call.Xrare.self.indices, call.Xrare.self.values, e)
                  = Occurrences(xin.x_ind, xin.x_data, <<e[1], e[2] + s[1], e[3]>>)

\* C4: with input_size_freq = input_size the SparseInputNet constructed has
\* no rare branch, forward takes the no-rare path, builds one sparse matrix
\* of shape [num_rows, input_size] from the entries as given and returns
\* net_freq applied to it; and whether a rare branch was built always agrees
\* with the path forward takes.
C4_NoRareSplit ==
  /\ (conf # None /\ IsNoRare(conf)) =>
       /\ op = "SparseInputNet" => (err = "none" /\ model # None /\ model.net_rare = None)
       /\ op = "SparseFFN" /\ model # None => model.input_net.net_rare = None
       /\ (model.cls = "SparseFFN" /\ call # None) =>
            /\ err = "none"
            /\ call.result.path = "no_rare"
            /\ call.result.X = [cls     |-> "sparse_coo",
                                shape   |-> <<xin.num_rows, conf.input_size>>,
                                indices |-> xin.x_ind,
                                values  |-> xin.x_data]
            /\ call.result.H
                 = SparseLinear_forward(model.input_net.net_freq, call.result.X).self
  /\ (model.cls = "SparseFFN" /\ call # None) =>
       ((call.result.path = "no_rare") <=> (model.input_net.net_rare = None))

\* C4 witness: a forward call of a module without rare branch on a batch
\* with an entry whose image under net_freq is not zero.
C4_Witness ==
  /\ model.cls = "SparseFFN" /\ call # None
  /\ IsNoRare(conf)
  /\ Len(xin.x_data) > 0
  /\ \E i \in 1..xin.num_rows, j \in 1..conf.hidden_sizes[1] :
       call.result.H.data[i][j] # 0

\* C5: for every valid config, SparseFFN construction and then forward on a
\* well-formed batch complete without error, and the output has shape
\* [num_rows, output_size].
C5_ForwardShape ==
  (conf # None /\ Valid(conf)) =>
    /\ op = "SparseFFN" => (err = "none" /\ model # None)
    /\ (model.cls = "SparseFFN" /\ call # None) =>
         /\ err = "none"
         /\ call.result.self.shape = <<xin.num_rows, conf.output_size>>

\* C6: with hidden_sizes of length 1 the IntermediateNet has no block and
\* its forward returns its input unchanged.
C6_IdentityWhenOneHiddenSize ==
  (conf # None /\ Len(conf.hidden_sizes) = 1) =>
    /\ op = "IntermediateNet" => (err = "none" /\ model # None /\ model.net = << >>)
    /\ (model.cls = "IntermediateNet" /\ call # None) =>
         (err = "none" /\ call.result.self = xin)
    /\ model.cls = "SparseFFN" => model.net[1].net = << >>
    /\ (model.cls = "SparseFFN" /\ call # None) => call.result.H2 = call.result.H

\* C6 witness: an IntermediateNet of a one-entry hidden_sizes was called in
\* training mode on an input with a negative and a positive element.
C6_Witness ==
  /\ model.cls = "IntermediateNet" /\ call # None
  /\ Len(conf.hidden_sizes) = 1
  /\ call.training
  /\ \E i \in 1..xin.shape[1], j \in 1..xin.shape[2] : xin.data[i][j] < 0
  /\ \E i \in 1..xin.shape[1], j \in 1..xin.shape[2] : xin.data[i][j] > 0

\* C7: a call of SparseFFN.forward changes no parameter and no config field,
\* and in evaluation mode a call with the input of the call before it
\* returns the output of the call before it.
C7_ForwardDeterministicAndPure ==
  [][(op' = "forward" /\ model.cls = "SparseFFN") =>
       /\ model' = model
       /\ conf' = conf
       /\ xin' = xin
       /\ (call # None /\ ~call.training /\ ~model.training)
            => call'.result = call.result]_vars

\* C7 witness: a second call in evaluation mode of a module whose last
\* dropout has p > 0, with an output that is not zero.
C7_Witness ==
  /\ model.cls = "SparseFFN" /\ call # None
  /\ call.repeated
  /\ conf.last_dropout > 0
  /\ \E i \in 1..xin.num_rows, j \in 1..conf.output_size :
       call.result.self.data[i][j] # 0

\* C8: with input_size_freq < input_size and tail_hidden_size set,
\* SparseInputNet construction succeeds and builds the rare branch
\* SparseLinear(input_size - input_size_freq -> tail_hidden_size), then a
\* bias-free linear layer (tail_hidden_size -> hidden_sizes[0]), next to
\* net_freq = SparseLinear(input_size_freq -> hidden_sizes[0]).
C8_RareBranchBuilt ==
  (conf # None /\ ~IsNoRare(conf) /\ conf.tail_hidden_size # NoInt
     /\ op = "SparseInputNet") =>
    /\ err = "none"
    /\ model # None
    /\ model.net_freq.weight.shape = <<conf.input_size_freq, conf.hidden_sizes[1]>>
    /\ model.net_rare # None
    /\ Len(model.net_rare) = 2
    /\ model.net_rare[1].cls = "SparseLinear"
    /\ model.net_rare[1].weight.shape
         = <<conf.input_size - conf.input_size_freq, conf.tail_hidden_size[1]>>
    /\ model.net_rare[2].cls = "Linear"
    /\ model.net_rare[2].bias = None
    /\ model.net_rare[2].weight.shape = <<conf.hidden_sizes[1], conf.tail_hidden_size[1]>>

\* C9: with hidden_sizes of length n > 1, IntermediateNet construction
\* succeeds and holds n-1 blocks; block i is the activation conf.non_linearity
\* names, dropout with probability hidden_dropout, and a linear layer
\* hidden_sizes[i] -> hidden_sizes[i+1].
C9_BlocksBuilt ==
  (conf # None /\ Len(conf.hidden_sizes) > 1 /\ op = "IntermediateNet") =>
    /\ err = "none"
    /\ model # None
    /\ Len(model.net) = Len(conf.hidden_sizes) - 1
    /\ \A i \in 1..(Len(conf.hidden_sizes) - 1) :
         /\ model.net[i][1] = Activation(conf.non_linearity)
         /\ model.net[i][2] = Dropout__init__(conf.hidden_dropout)
         /\ model.net[i][3].weight.shape = <<conf.hidden_sizes[i + 1], conf.hidden_sizes[i]>>

\* C10: no ModelConfig is returned that has a rare split and no
\* tail_hidden_size: construction fails for that combination.
C10_TailHiddenSizeRequired ==
  (conf # None /\ ~IsNoRare(conf)) => conf.tail_hidden_size # NoInt

====
